---- MODULE Spec2Model ----
(***************************************************************************)
(* Model of src/SelectCommon.vue: a remote, paginated, searchable select.  *)
(* The component's reactive fields, its props, the fetches in flight, the  *)
(* two debounce timers and the scroll listeners are the state; each event  *)
(* handler (up to its first await) and each fetch response (the rest of    *)
(* getData plus the rest of the handler that awaited it) is one action.    *)
(***************************************************************************)
EXTENDS Integers, Sequences, FiniteSets, Bags, TLC

(* ---------------- bounds of the model ---------------- *)
MaxFetches == 4       \* calls of fetchData in one run
ShortLen == 3         \* length of the short pages the backend can return
SecondStart == 9      \* first id of the short page; it overlaps the full page
PinnedValue == 11     \* the truthy modelValue: in the short page, not in the full page

(* ---------------- program constants ---------------- *)
PageSize == 10        \* MaxResultCount: 10 in every params literal

(* ---------------- input domains ---------------- *)
\* modelValue is String|Number with default ''; 0 stands for the falsy
\* values ('' and the number 0), every other integer is a truthy value.
Values == {0, PinnedValue}
Names == {"", "N"}
Queries == {"", "abc"}
Params == {"p0"}

Truthy(v) == v # 0
TruthyStr(s) == s # ""

ItemName(id) == "item" \o ToString(id)

PageOf(lo, n) == [k \in 1..n |-> [id |-> lo + k - 1, name |-> ItemName(lo + k - 1)]]

\* the pages fetchData can resolve with, whatever the request: a full page and a
\* short one that shares ids with it; each page is duplicate-free
Pages == {PageOf(1, PageSize), PageOf(SecondStart, ShortLen)}

\* what a call of fetchData can end in: a resolved value without the error
\* flag (items: the page, reason: unused), a resolved value with the error
\* flag, or a rejection with its reason
Responses == [kind : {"ok"}, items : Pages, reason : {""}]
             \cup {[kind |-> "error", items |-> <<>>, reason |-> ""],
                   [kind |-> "reject", items |-> <<>>, reason |-> "timeout"]}

VARIABLES
    mounted,      \* onMounted has run
    visible,      \* the dropdown is open
    param,        \* props.param
    modelValue,   \* props.modelValue
    name,         \* props.name
    value,        \* ref value
    itemList,     \* ref itemList: sequence of [label, value]
    totalItems,   \* ref totalItems
    loading,      \* ref loading
    currentPage,  \* ref currentPage
    hasMore,      \* ref hasMore
    pending,      \* bag of the calls of getData suspended at 'await props.fetchData'
    searchTimer,  \* debounce timer of remoteSearch: <<>> or <<query>>
    scrollTimer,  \* debounce timer of handleScroll: <<>> or <<"scroll">>
    listeners,    \* DOM elements on which handleScroll is registered
    fetches,      \* number of calls of fetchData so far
    loadMores,    \* number of load-more fetches since currentPage was last reset
    searchBurst,  \* the search timer that is armed, or else the one whose firing 'last'
                  \* records, replaced an earlier one that had not fired
    last          \* the latest call or return of getData, or scroll that loaded nothing

vars == <<mounted, visible, param, modelValue, name, value, itemList, totalItems,
          loading, currentPage, hasMore, pending, searchTimer, scrollTimer,
          listeners, fetches, loadMores, searchBurst, last>>

OptionValues(list) == {list[i].value : i \in DOMAIN list}

\* what 'last' records: of a call of getData the handler (op) and the request, of a
\* return the request and its outcome (res, msgs, threw), and of a scroll that loads
\* nothing the outcome recorded before it
Step(op, req, res, msgs, threw) ==
    [op |-> op, req |-> req, res |-> res, msgs |-> msgs, threw |-> threw]

\* the params literal of remoteSearch, onMounted and handleVisibleChange
FirstPageParams(q) ==
    [param |-> param, skipCount |-> 1, MaxResultCount |-> PageSize,
     hasKeyword |-> TruthyStr(q), keyword |-> IF TruthyStr(q) THEN q ELSE ""]

\* LoadMoreParams with skipCount taken as a number of items to skip
LoadMoreParamsOffset(page) ==
    [param |-> param, skipCount |-> (page - 1) * PageSize, MaxResultCount |-> PageSize,
     hasKeyword |-> FALSE, keyword |-> ""]

\* the params literal of handleScroll
LoadMoreParams(page) ==
    [param |-> param, skipCount |-> page, MaxResultCount |-> PageSize,
     hasKeyword |-> FALSE, keyword |-> ""]

\* a suspended call of getData; awaiter is the handler whose remaining code
\* runs when the call returns ("-" for the handlers that end with the call);
\* supersededBy: the latest first-page call of getData made after it, if any
Request(params, isLoadMore, awaiter) ==
    [params |-> params, isLoadMore |-> isLoadMore, awaiter |-> awaiter, supersededBy |-> <<>>]

\* the suspended calls once the first-page call newer has been made: every one
\* of them stays suspended; nothing is cancelled
Supersede(bag, newer) ==
    LET Mark(req) == [req EXCEPT !.supersededBy = <<newer>>]
        marked == {Mark(req) : req \in BagToSet(bag)}
        Sum(S) == BagCardinality([r \in S |-> CopiesIn(r, bag)])
    IN  [m \in marked |-> Sum({req \in BagToSet(bag) : Mark(req) = m})]

InFlight == BagCardinality(pending)

\* the run is cut after MaxFetches calls of fetchData: a user event is followed
\* only while a call is left for it, each armed timer keeping one for its body
FetchLeft == fetches + Len(searchTimer) + Len(scrollTimer) < MaxFetches

\* getData up to its await: TRUE iff it returns early without fetching
GetDataSkips(hm, isLoadMore) == ~hm /\ isLoadMore

\* getData up to its await, called with hasMore = hm
GetDataStart(hm, params, isLoadMore, awaiter) ==
    IF GetDataSkips(hm, isLoadMore)
    THEN /\ UNCHANGED <<loading, pending, fetches>>
    ELSE /\ loading' = TRUE
         /\ fetches' = fetches + 1
         /\ pending' = (IF isLoadMore THEN pending
                         ELSE Supersede(pending, Request(params, isLoadMore, awaiter)))
                            (+) SetToBag({Request(params, isLoadMore, awaiter)})

\* searchBurst once 'last' records a call or return other than a search timer's
BurstAfterRecord == IF searchTimer = <<>> THEN FALSE ELSE searchBurst

Issued(hm, params, isLoadMore, awaiter) ==
    IF GetDataSkips(hm, isLoadMore) THEN <<>> ELSE <<Request(params, isLoadMore, awaiter)>>

Init ==
    /\ mounted = FALSE
    /\ visible = FALSE
    /\ param \in Params
    /\ modelValue \in Values
    /\ name \in Names
    /\ value = modelValue
    /\ itemList = <<>>
    /\ totalItems = 0
    /\ loading = FALSE
    /\ currentPage = 1
    /\ hasMore = TRUE
    /\ pending = EmptyBag
    /\ fetches = 0
    /\ loadMores = 0
    /\ searchBurst = FALSE
    /\ searchTimer = <<>>
    /\ scrollTimer = <<>>
    /\ listeners = {}
    /\ last = Step("init", <<>>, <<>>, <<>>, FALSE)

(* ---------------- getData after its await ---------------- *)

\* res.items?.map(item => ({label: item.name, value: item.id})) || []
MapItems(items) == [k \in DOMAIN items |-> [label |-> items[k].name, value |-> items[k].id]]

\* LoadedList putting the new items of a load-more before the list
LoadedListPrepending(isLoadMore, list, newItems) ==
    IF isLoadMore THEN newItems \o list ELSE newItems

\* the list before pinning: appended when loading more, replaced otherwise
LoadedList(isLoadMore, list, newItems) ==
    IF isLoadMore THEN list \o newItems ELSE newItems

\* EnsurePinned putting the missing entry after the list
EnsurePinnedLast(list, nm, val) ==
    IF TruthyStr(nm) /\ Truthy(val) /\ val \notin OptionValues(list)
    THEN list \o <<[label |-> nm, value |-> val]>>
    ELSE list

\* 'if (props.name && value.value)': put {label: name, value} first unless
\* an option with that value is in the list
EnsurePinned(list, nm, val) ==
    IF TruthyStr(nm) /\ Truthy(val) /\ val \notin OptionValues(list)
    THEN <<[label |-> nm, value |-> val]>> \o list
    ELSE list

\* HasMoreAfter taking any non-empty page as a sign of more
HasMoreIfAny(newItems, params) == Len(newItems) > 0

\* hasMore.value = newItems.length === params.MaxResultCount
HasMoreAfter(newItems, params) == Len(newItems) = params.MaxResultCount

\* message reporting the error as a warning
messageWarning(error) == [payload |-> error, customClass |-> "el", type |-> "warning"]

\* message(error, { customClass: 'el', type: 'error' })
message(error) == [payload |-> error, customClass |-> "el", type |-> "error"]

\* MessagesOf reporting the error flag as well
MessagesOfAnyFailure(res) ==
    IF res.kind # "ok"
    THEN <<[payload |-> res.reason, customClass |-> "el", type |-> "error"]>>
    ELSE <<>>

\* the calls of the notification sink getData makes when its fetch settles with res
MessagesOf(res) == IF res.kind = "reject" THEN <<message(res.reason)>> ELSE <<>>

\* FailedLoad without the reset of hasMore
FailedLoadKeepsMore == [itemList |-> <<>>, hasMore |-> hasMore, totalItems |-> 0]

\* what the else branch ('res.error' set) and the catch block assign
FailedLoad == [itemList |-> <<>>, hasMore |-> FALSE, totalItems |-> 0]

\* GetDataThrows for a catch block that throws the rejection again
GetDataRethrows(kind) == kind = "reject"

\* does getData end by throwing to its caller: try/catch/finally catches
\* every failure and the catch block throws nothing
GetDataThrows(kind) == FALSE

\* GetDataResume dropping the response of a call that a newer first-page call
\* has superseded
GetDataResumeLatestOnly(req, res, list, nm, val) ==
    IF req.supersededBy # <<>>
    THEN [itemList |-> list, hasMore |-> hasMore, totalItems |-> totalItems,
          msgs |-> <<>>, threw |-> FALSE]
    ELSE IF res.kind = "ok"
    THEN LET newItems == MapItems(res.items)
             pinned == EnsurePinned(LoadedList(req.isLoadMore, list, newItems), nm, val)
         IN  [itemList |-> pinned,
              hasMore |-> HasMoreAfter(newItems, req.params),
              totalItems |-> Len(pinned),
              msgs |-> MessagesOf(res),
              threw |-> GetDataThrows(res.kind)]
    ELSE [itemList |-> FailedLoad.itemList,
          hasMore |-> FailedLoad.hasMore,
          totalItems |-> FailedLoad.totalItems,
          msgs |-> MessagesOf(res),
          threw |-> GetDataThrows(res.kind)]

\* the fields getData leaves when its fetch settles with res
GetDataResume(req, res, list, nm, val) ==
    IF res.kind = "ok"
    THEN LET newItems == MapItems(res.items)
             pinned == EnsurePinned(LoadedList(req.isLoadMore, list, newItems), nm, val)
         IN  [itemList |-> pinned,
              hasMore |-> HasMoreAfter(newItems, req.params),
              totalItems |-> Len(pinned),
              msgs |-> MessagesOf(res),
              threw |-> GetDataThrows(res.kind)]
    ELSE [itemList |-> FailedLoad.itemList,
          hasMore |-> FailedLoad.hasMore,
          totalItems |-> FailedLoad.totalItems,
          msgs |-> MessagesOf(res),
          threw |-> GetDataThrows(res.kind)]

\* getData without its finally block
LoadingStays(wasLoading) == wasLoading

\* 'finally { loading.value = false }'
LoadingAfter(wasLoading) == FALSE

(* ---------------- handlers ---------------- *)

\* onMounted
onMounted ==
    /\ ~mounted
    /\ mounted' = TRUE
    /\ GetDataStart(hasMore, FirstPageParams(""), FALSE, "-")
    /\ last' = Step("mount", Issued(hasMore, FirstPageParams(""), FALSE, "-"), <<>>, <<>>, FALSE)
    /\ UNCHANGED <<visible, param, modelValue, name, value, itemList, totalItems,
                   currentPage, hasMore, searchTimer, scrollTimer, listeners, loadMores, searchBurst>>

\* OpenReset without the reset of currentPage
OpenResetKeepsPage ==
    [itemList |-> <<>>, totalItems |-> 0, hasMore |-> TRUE, currentPage |-> currentPage]

\* the fields handleVisibleChange(true) resets before it loads
OpenReset == [itemList |-> <<>>, totalItems |-> 0, hasMore |-> TRUE, currentPage |-> 1]

\* the query handleVisibleChange(true) loads with (none: no keyword)
OpenQuery == ""

\* handleVisibleChange(true) up to 'await getData(params)'
handleVisibleChangeOpen ==
    /\ mounted /\ ~visible
    /\ FetchLeft
    /\ visible' = TRUE
    /\ itemList' = OpenReset.itemList
    /\ totalItems' = OpenReset.totalItems
    /\ hasMore' = OpenReset.hasMore
    /\ currentPage' = OpenReset.currentPage
    /\ loadMores' = 0
    /\ GetDataStart(OpenReset.hasMore, FirstPageParams(OpenQuery), FALSE, "handleVisibleChange")
    /\ last' = Step("open", Issued(OpenReset.hasMore, FirstPageParams(OpenQuery), FALSE, "handleVisibleChange"),
                    <<>>, <<>>, FALSE)
    /\ searchBurst' = BurstAfterRecord
    /\ UNCHANGED <<mounted, param, modelValue, name, value, searchTimer, scrollTimer, listeners>>

\* the element handleVisibleChange(true) registers handleScroll on, and the
\* element handleVisibleChange(false) unregisters it from
AttachTarget == "myselect-loadmore el-select-dropdown__wrap"
DetachTarget == "el-select-dropdown"

\* handleVisibleChange(false); removing a listener that is not registered on
\* the element, or finding no element, changes nothing
handleVisibleChangeClose ==
    /\ mounted /\ visible
    /\ visible' = FALSE
    /\ listeners' = listeners \ {DetachTarget}
    /\ UNCHANGED last
    /\ UNCHANGED <<mounted, param, modelValue, name, value, itemList, totalItems,
                   loading, currentPage, hasMore, pending, fetches, loadMores, searchTimer, scrollTimer, searchBurst>>

\* debounce without its clearTimeout: the earlier timer stays armed
debounceKeepsEarlier(timer, args) == Append(timer, args)

\* debounce(func, delay)(args): clearTimeout, then setTimeout with the new args;
\* a timer holds the args of the calls whose timeout is still to fire
debounce(timer, args) == <<args>>

\* remoteSearch(query) as el-select calls it while the user types: arms the timer
remoteSearch(query) ==
    /\ mounted /\ visible
    /\ searchTimer # <<>> \/ FetchLeft
    /\ searchTimer' = debounce(searchTimer, query)
    /\ searchBurst' = (searchTimer # <<>>)
    /\ UNCHANGED last
    /\ UNCHANGED <<mounted, visible, param, modelValue, name, value, itemList, totalItems,
                   loading, currentPage, hasMore, pending, fetches, loadMores, scrollTimer, listeners>>

\* SearchReset without the reset of currentPage
SearchResetKeepsPage == [currentPage |-> currentPage, hasMore |-> TRUE]

\* the fields the debounced body of remoteSearch resets before it loads
SearchReset == [currentPage |-> 1, hasMore |-> TRUE]

\* the 300ms timer fires: the debounced body of remoteSearch up to its await
remoteSearchFire ==
    /\ searchTimer # <<>>
    /\ fetches < MaxFetches
    /\ LET query == Head(searchTimer) IN
        /\ currentPage' = SearchReset.currentPage
        /\ loadMores' = 0
        /\ hasMore' = SearchReset.hasMore
        /\ GetDataStart(SearchReset.hasMore, FirstPageParams(query), FALSE, "-")
        /\ last' = Step("searchFire", Issued(SearchReset.hasMore, FirstPageParams(query), FALSE, "-"),
                        <<>>, <<>>, FALSE)
    /\ searchTimer' = Tail(searchTimer)
    /\ UNCHANGED <<mounted, visible, param, modelValue, name, value, itemList, totalItems,
                   scrollTimer, listeners, searchBurst>>

\* a scroll event on an element handleScroll is registered on: arms the timer
handleScroll ==
    /\ mounted /\ visible
    /\ scrollTimer # <<>> \/ FetchLeft
    /\ AttachTarget \in listeners
    /\ scrollTimer' = debounce(scrollTimer, "scroll")
    /\ UNCHANGED last
    /\ UNCHANGED <<mounted, visible, param, modelValue, name, value, itemList, totalItems,
                   loading, currentPage, hasMore, pending, fetches, loadMores, searchTimer, listeners, searchBurst>>

\* ScrollLoads without the test of the loading flag
ScrollLoadsWhileLoading(bottom, isLoading, more) == bottom /\ more

\* 'if (bottom && !loading.value && hasMore.value)'
ScrollLoads(bottom, isLoading, more) == bottom /\ ~isLoading /\ more

\* the 100ms timer fires: the debounced body of handleScroll up to its await;
\* bottom is what event.target's geometry gives at that moment. A fire at the
\* bottom with nothing loading that hasMore keeps from loading is recorded.
handleScrollFire(bottom) ==
    /\ scrollTimer # <<>>
    /\ scrollTimer' = Tail(scrollTimer)
    /\ IF ScrollLoads(bottom, loading, hasMore)
       THEN /\ fetches < MaxFetches
            /\ currentPage' = currentPage + 1
            /\ loadMores' = (IF GetDataSkips(hasMore, TRUE) THEN loadMores ELSE loadMores + 1)
            /\ GetDataStart(hasMore, LoadMoreParams(currentPage + 1), TRUE, "-")
            /\ last' = Step("scrollFire", Issued(hasMore, LoadMoreParams(currentPage + 1), TRUE, "-"),
                            <<>>, <<>>, FALSE)
            /\ searchBurst' = BurstAfterRecord
       ELSE /\ last' = IF bottom /\ ~loading
                       THEN Step("scrollFire", <<>>, last.res, last.msgs, last.threw)
                       ELSE last
            /\ searchBurst' = (IF bottom /\ ~loading THEN BurstAfterRecord ELSE searchBurst)
            /\ UNCHANGED <<currentPage, loading, pending, fetches, loadMores>>
    /\ UNCHANGED <<mounted, visible, param, modelValue, name, value, itemList, totalItems,
                   hasMore, searchTimer, listeners>>

\* fetchDataSettles calling fetchData again when the fetch has failed
fetchDataSettlesRetrying(req, res) ==
    /\ BagIn(req, pending)
    /\ LET out == GetDataResume(req, res, itemList, name, value)
           again == res.kind # "ok" /\ fetches < MaxFetches
       IN  /\ itemList' = out.itemList
           /\ hasMore' = out.hasMore
           /\ totalItems' = out.totalItems
           /\ loading' = again
           /\ fetches' = IF again THEN fetches + 1 ELSE fetches
           /\ pending' = IF again THEN pending ELSE pending (-) SetToBag({req})
           /\ last' = Step("settle", <<req>>, <<res>>, out.msgs, out.threw)
    /\ searchBurst' = BurstAfterRecord
    /\ UNCHANGED <<mounted, visible, param, modelValue, name, value, currentPage,
                   searchTimer, scrollTimer, listeners, loadMores>>

\* the fetch of the suspended call req settles with res: the rest of getData,
\* then the rest of the handler that awaited it (handleVisibleChange registers
\* handleScroll on the popup's wrap element, which exists once the dropdown
\* has been shown)
fetchDataSettles(req, res) ==
    /\ BagIn(req, pending)
    /\ LET out == GetDataResume(req, res, itemList, name, value)
       IN  /\ itemList' = out.itemList
           /\ hasMore' = out.hasMore
           /\ totalItems' = out.totalItems
           /\ loading' = LoadingAfter(loading)
           /\ listeners' = IF req.awaiter = "handleVisibleChange" /\ ~out.threw
                           THEN listeners \cup {AttachTarget}
                           ELSE listeners
           /\ last' = Step("settle", <<req>>, <<res>>, out.msgs, out.threw)
    /\ pending' = pending (-) SetToBag({req})
    /\ searchBurst' = BurstAfterRecord
    /\ UNCHANGED <<mounted, visible, param, modelValue, name, value, currentPage,
                   searchTimer, scrollTimer, fetches, loadMores>>

\* watch(() => props.name, ...): the list after the watcher has run
NameWatcher(list, newVal, val) ==
    IF TruthyStr(newVal) /\ Truthy(val) /\ val \notin OptionValues(list)
    THEN <<[label |-> newVal, value |-> val]>> \o list
    ELSE list

\* the parent changes modelValue and/or name; the watchers of the changed
\* props run in the order they were created (modelValue, then name)
propsChange(v, n) ==
    /\ mounted
    /\ <<v, n>> # <<modelValue, name>>
    /\ modelValue' = v
    /\ name' = n
    /\ value' = IF v # modelValue THEN v ELSE value
    /\ itemList' = IF n # name THEN NameWatcher(itemList, n, value') ELSE itemList
    /\ UNCHANGED last
    /\ UNCHANGED <<mounted, visible, param, totalItems, loading, currentPage, hasMore,
                   pending, fetches, loadMores, searchTimer, scrollTimer, listeners, searchBurst>>

\* v-model="value" on el-select: the user picks an option of the list, or
\* clears the selection (v = 0); the pick is emitted as update:modelValue
selectOption(v) ==
    /\ mounted /\ visible
    /\ \/ v \in OptionValues(itemList)
       \/ v = 0 /\ Truthy(value)
    /\ v # value
    /\ value' = v
    /\ modelValue' = v
    /\ UNCHANGED last
    /\ UNCHANGED <<mounted, visible, param, name, itemList, totalItems, loading, currentPage,
                   hasMore, pending, fetches, loadMores, searchTimer, scrollTimer, listeners, searchBurst>>

Next ==
    \/ onMounted
    \/ handleVisibleChangeOpen
    \/ handleVisibleChangeClose
    \/ \E q \in Queries : remoteSearch(q)
    \/ remoteSearchFire
    \/ handleScroll
    \/ \E bottom \in BOOLEAN : handleScrollFire(bottom)
    \/ \E req \in BagToSet(pending), res \in Responses : fetchDataSettles(req, res)
    \/ \E v \in Values, n \in Names : propsChange(v, n)
    \/ \E v \in Values : selectOption(v)

Spec == Init /\ [][Next]_vars

\* every promise fetchData returns settles: 'await props.fetchData(params)'
\* resumes, with a value or a rejection, for as long as a call is suspended
\* there. The user's events carry no fairness.
FairSpec ==
    Spec /\ WF_vars(\E req \in BagToSet(pending), res \in Responses : fetchDataSettles(req, res))

(* ---------------- steps and outcomes the claims speak of ---------------- *)

\* the step calls fetchData; last'.req[1] is the request
IssuesFetch == fetches' = fetches + 1

\* the step is the return of a call of getData; last'.req[1] is its request,
\* last'.res[1] what its fetch settled with
SettlesFetch == fetches' = fetches /\ BagCardinality(pending') = BagCardinality(pending) - 1

OpenStep == ~visible /\ visible'
SearchFireStep == searchTimer # <<>> /\ searchTimer' = <<>>
ScrollFireStep == scrollTimer # <<>> /\ scrollTimer' = <<>>

Failures == {"error", "reject"}

\* no call of fetchData since a load that succeeded / failed
LastOk == last.res # <<>> /\ last.res[1].kind = "ok"
LastFailed == last.res # <<>> /\ last.res[1].kind \in Failures

NoDuplicates(list) == \A i, j \in DOMAIN list : list[i].value = list[j].value => i = j

PinnedEntry == [label |-> name, value |-> value]

(* ---------------- C1 ---------------- *)

\* C1: after every successful load, replacing or appending, options holds no
\* two entries with the same value (each fetched page being duplicate-free).
C1_NoDuplicateValues == LastOk => NoDuplicates(itemList)

(* ---------------- C2 ---------------- *)

\* C2: whenever name and the selected value are both non-empty, options holds
\* an entry with that value at position 0, also while a load is in flight,
\* after a failed load, after a re-open and after modelValue has changed.
C2_PinnedAlwaysFirst ==
    (mounted /\ TruthyStr(name) /\ Truthy(value))
        => (Len(itemList) >= 1 /\ itemList[1].value = value)

(* ---------------- C3 ---------------- *)

\* C3: a load that succeeds with name and the selected value non-empty leaves
\* options = the entry {label: name, value: selected} followed by the list
\* (the fetched page, or the old options plus the fetched page when appending)
\* if that list lacks the value, and exactly that list if it holds the value.
C3_PinnedPrependedOnSuccess ==
    [][(SettlesFetch /\ last'.res[1].kind = "ok" /\ TruthyStr(name) /\ Truthy(value))
        => LET items == last'.res[1].items
               page == [k \in DOMAIN items |-> [label |-> items[k].name, value |-> items[k].id]]
               list == IF last'.req[1].isLoadMore THEN itemList \o page ELSE page
           IN  itemList' = IF value \in OptionValues(list) THEN list ELSE <<PinnedEntry>> \o list]_vars

\* a replacing load has returned a full page without the selected value: the
\* pinned entry is first and the page follows
C3_Witness ==
    /\ LastOk /\ ~last.req[1].isLoadMore
    /\ TruthyStr(name) /\ Truthy(value)
    /\ Len(last.res[1].items) = PageSize
    /\ itemList = <<PinnedEntry>> \o MapItems(last.res[1].items)

(* ---------------- C4 ---------------- *)

\* C4: with no fetch in flight, hasMore is true iff the load that completed
\* last succeeded and returned exactly MaxResultCount (10) items; the pinned
\* entry put before them does not count.
C4_HasMoreIffFullPage ==
    (mounted /\ InFlight = 0)
        => /\ last.res # <<>>
           /\ hasMore <=> (last.res[1].kind = "ok" /\ Len(last.res[1].items) = PageSize)

\* nothing in flight, a full page behind the pinned entry, hasMore true
C4_Witness ==
    /\ mounted /\ InFlight = 0 /\ LastOk
    /\ hasMore
    /\ Len(last.res[1].items) = PageSize
    /\ Len(itemList) = PageSize + 1
    /\ itemList[1] = PinnedEntry

(* ---------------- C5 ---------------- *)

\* C5: whenever the dropdown is opened, from any state, options is empty,
\* currentPage is 1 and hasMore is true when the open handler calls fetchData,
\* and the call is an unfiltered first-page request (skipCount 1,
\* MaxResultCount 10, no keyword).
C5_OpenResetsAndLoadsFirstPage ==
    [][OpenStep
        => /\ itemList' = <<>> /\ currentPage' = 1 /\ hasMore' = TRUE
           /\ IssuesFetch
           /\ BagIn(last'.req[1], pending')
           /\ last'.req[1].params.skipCount = 1
           /\ last'.req[1].params.MaxResultCount = 10
           /\ ~last'.req[1].params.hasKeyword
           /\ ~last'.req[1].isLoadMore]_vars

\* the dropdown has just been re-opened while a load-more fetch of an earlier
\* opening is still in flight
C5_Witness ==
    /\ last.op = "open" /\ visible
    /\ itemList = <<>> /\ currentPage = 1 /\ hasMore
    /\ \E r \in BagToSet(pending) : r.isLoadMore /\ r.params.skipCount >= 2

(* ---------------- C6 ---------------- *)

\* C6: a fetch issued by onScroll carries skipCount = currentPage after its
\* increment by 1, so the k-th load-more after a reset asks for skipCount k+1
\* with MaxResultCount 10; fetches of mount, open and search carry skipCount 1.
C6_SkipCountFollowsPage ==
    [][IssuesFetch
        => LET params == last'.req[1].params IN
           IF last'.op = "scrollFire"
           THEN /\ currentPage' = currentPage + 1
                /\ params.skipCount = currentPage'
                /\ params.skipCount = loadMores' + 1
                /\ params.MaxResultCount = 10
           ELSE /\ last'.op \in {"mount", "open", "searchFire"}
                /\ params.skipCount = 1]_vars

\* the second load-more after a reset has just been issued with skipCount 3
C6_Witness ==
    /\ last.op = "scrollFire" /\ last.req # <<>>
    /\ loadMores = 2
    /\ last.req[1].params.skipCount = 3

(* ---------------- C7 ---------------- *)

\* C7: when a load fails (error flag in the response, or fetch rejected), at
\* its end options is empty, hasMore false, totalCount 0 and loading false,
\* and getData returns normally to the handler that called it.
C7_FailedLoadClearsAndReturns ==
    [][(SettlesFetch /\ last'.res[1].kind \in Failures)
        => /\ itemList' = <<>>
           /\ hasMore' = FALSE
           /\ totalItems' = 0
           /\ loading' = FALSE
           /\ last'.threw = FALSE]_vars

\* a fetch has been rejected after options had been loaded
C7_Witness ==
    /\ last.op = "settle" /\ last.res[1].kind = "reject"
    /\ fetches >= 2
    /\ itemList = <<>> /\ ~hasMore /\ totalItems = 0 /\ ~loading /\ ~last.threw

(* ---------------- C8 ---------------- *)

\* C8: a rejected fetch and an error-flagged response are treated alike: the
\* list is emptied and the notification sink is invoked once per failed load.
C8_EveryFailureNotifies ==
    [][(SettlesFetch /\ last'.res[1].kind \in Failures)
        => (itemList' = <<>> /\ Len(last'.msgs) = 1)]_vars

\* C8 as amended: both failures empty the list; the notification sink is
\* invoked once when the fetch was rejected and not at all for an error flag.
C8_OnlyRejectionNotifies ==
    [][(SettlesFetch /\ last'.res[1].kind \in Failures)
        => /\ itemList' = <<>>
           /\ Len(last'.msgs) = IF last'.res[1].kind = "reject" THEN 1 ELSE 0]_vars

\* an error-flagged response has emptied the list without a notification
C8_Witness ==
    /\ last.op = "settle" /\ last.res[1].kind = "error"
    /\ itemList = <<>> /\ last.msgs = <<>>

(* ---------------- C9 ---------------- *)

\* C9: the two failures differ in the notification only: both leave the same
\* cleared fields; an error flag invokes the notification sink zero times, a
\* rejection exactly once, with the error as payload and type 'error'.
C9_FailuresDifferInNotification ==
    [][(SettlesFetch /\ last'.res[1].kind \in Failures)
        => /\ <<itemList', hasMore', totalItems', loading'>> = <<<<>>, FALSE, 0, FALSE>>
           /\ last'.res[1].kind = "error" => last'.msgs = <<>>
           /\ last'.res[1].kind = "reject"
                => last'.msgs = <<[payload |-> last'.res[1].reason,
                                   customClass |-> "el", type |-> "error"]>>]_vars

\* a rejection has been reported once, with its reason and type 'error'
C9_Witness ==
    /\ last.op = "settle" /\ last.res[1].kind = "reject"
    /\ Len(last.msgs) = 1
    /\ last.msgs[1].payload = "timeout" /\ last.msgs[1].type = "error"
    /\ itemList = <<>>

(* ---------------- C10 ---------------- *)

MountStep == ~mounted /\ mounted'

\* C11: no failed load is retried by the component: fetchData is called only
\* in the step of a user event (mount, open, search debounce firing, scroll
\* debounce firing) and once per such step, never in the step in which a
\* fetch settles; so the fetches never outnumber these events.
C11_FetchOnlyOnUserEvent ==
    [][/\ fetches' # fetches
          => /\ fetches' = fetches + 1
             /\ InFlight' = InFlight + 1
             /\ MountStep \/ OpenStep \/ SearchFireStep \/ ScrollFireStep
       /\ last'.op = "settle" /\ last' # last => fetches' = fetches /\ InFlight' = InFlight - 1]_vars

\* a load has failed and the component is at rest: nothing in flight, no
\* timer armed, calls of fetchData still allowed
C11_Witness ==
    /\ last.op = "settle" /\ last.res[1].kind \in Failures
    /\ InFlight = 0 /\ ~loading
    /\ searchTimer = <<>> /\ scrollTimer = <<>>
    /\ fetches < MaxFetches

(* ---------------- C12 ---------------- *)

\* C12: a burst of calls of remoteSearch, each before the timer of the one
\* before it has fired, issues one fetch: a call issues none and leaves armed
\* only its own timer with its own query, and the timer firing issues exactly
\* one fetch, built from that query (that of the last call), and leaves no
\* timer armed. Likewise a scroll event issues no fetch and leaves one scroll
\* timer armed, and that timer firing issues at most one load-more.
C12_OneFetchPerBurst ==
    [][/\ \A q \in Queries :
            remoteSearch(q) => searchTimer' = <<q>> /\ fetches' = fetches
       /\ remoteSearchFire
            => /\ fetches' = fetches + 1
               /\ searchTimer' = <<>>
               /\ last'.req = <<Request(FirstPageParams(Head(searchTimer)), FALSE, "-")>>
       /\ handleScroll => Len(scrollTimer') = 1 /\ fetches' = fetches
       /\ \A b \in BOOLEAN :
            handleScrollFire(b) => scrollTimer' = <<>> /\ fetches' \in {fetches, fetches + 1}]_vars

\* the search timer has fired after a burst (it had replaced an earlier timer):
\* the burst has issued one fetch, the third after those of mount and open,
\* with the query "abc" of its last call
C12_Witness ==
    /\ searchBurst /\ searchTimer = <<>>
    /\ last.op = "searchFire"
    /\ last.req[1].params.keyword = "abc"
    /\ fetches = 3

(* ---------------- C13 ---------------- *)

\* a call of handleVisibleChange(true) is suspended at its 'await getData(params)'
OpenHandlerRunning ==
    \E req \in BagToSet(pending) : req.awaiter = "handleVisibleChange"

\* C13: once handleVisibleChange(false) has been handled and no earlier
\* handleVisibleChange(true) is still running, handleScroll is registered
\* nowhere: not on the wrap element it was registered on.
C13_NoListenerAfterClose ==
    ~visible /\ ~OpenHandlerRunning => listeners = {}

(* ---------------- C14 ---------------- *)

\* list ends with tail
EndsWith(list, tail) ==
    /\ Len(list) >= Len(tail)
    /\ SubSeq(list, Len(list) - Len(tail) + 1, Len(list)) = tail

\* C14: a call of getData that a newer open or search has superseded is
\* neither queued nor cancelled: the newer call fetches at once and every
\* call suspended before it stays suspended, and when the superseded call's
\* fetch resolves afterwards its items are applied like any others, replacing
\* the list (first page) or appended to the list as it is then (load-more).
C14_SupersededResponsesApplied ==
    [][/\ OpenStep \/ SearchFireStep
          => fetches' = fetches + 1 /\ InFlight' = InFlight + 1
       /\ (/\ InFlight' = InFlight - 1
           /\ last'.op = "settle"
           /\ last'.req[1].supersededBy # <<>>
           /\ last'.res[1].kind = "ok")
          => LET newItems == MapItems(last'.res[1].items) IN
             IF last'.req[1].isLoadMore
             THEN EndsWith(itemList', itemList \o newItems)
             ELSE itemList' \in {newItems, <<PinnedEntry>> \o newItems}]_vars

\* the search for "abc" was followed by the search for "" while its fetch was
\* pending, every other fetch has settled, and the response of "abc" was
\* applied last: the list is the result of "abc" though "" is the latest query
C14_Witness ==
    /\ last.op = "settle" /\ last.res[1].kind = "ok"
    /\ last.req[1].params.keyword = "abc"
    /\ last.req[1].supersededBy = <<Request(FirstPageParams(""), FALSE, "-")>>
    /\ InFlight = 0
    /\ itemList = MapItems(last.res[1].items)
    /\ searchTimer = <<>>

\* a load-more started before an open or a search was applied last, after the
\* first page of that open or search: the list is that page and then its items
C14_LoadMoreWitness ==
    /\ last.op = "settle" /\ last.res[1].kind = "ok"
    /\ last.req[1].isLoadMore
    /\ last.req[1].supersededBy # <<>>
    /\ InFlight = 0
    /\ currentPage = 1
    /\ Len(itemList) > Len(last.res[1].items)
    /\ EndsWith(itemList, MapItems(last.res[1].items))

(* ---------------- C15 ---------------- *)

\* C15: when the scroll timer fires, a load-more starts (currentPage goes up
\* by one and a fetch is issued by a call of getData with isLoadMore) if and
\* only if the container is at its bottom, loading is false and hasMore is
\* true; otherwise currentPage, the list, hasMore, loading and the calls in
\* flight stay as they are and nothing is fetched.
C15_ScrollLoadsIffBottomIdleMore ==
    [][\A bottom \in BOOLEAN :
        handleScrollFire(bottom)
        => IF bottom /\ ~loading /\ hasMore
           THEN /\ currentPage' = currentPage + 1
                /\ fetches' = fetches + 1
                /\ loading'
                /\ Len(last'.req) = 1 /\ last'.req[1].isLoadMore
                /\ pending' = pending (+) SetToBag({last'.req[1]})
           ELSE UNCHANGED <<currentPage, itemList, hasMore, loading, pending, fetches>>]_vars

\* the scroll timer has fired at the bottom of the first page with nothing
\* loading: the load-more of page 2 is in flight
C15_Witness ==
    /\ last.op = "scrollFire" /\ last.req # <<>>
    /\ last.req[1].isLoadMore
    /\ currentPage = 2 /\ loading /\ hasMore
    /\ scrollTimer = <<>>
    /\ InFlight = 1

(* ---------------- C16 ---------------- *)

\* the search timer fires: currentPage and hasMore are reset and one
\* replacing call of getData for the first page, with the entries of param,
\* fetches
SearchFireLoadsFirstPage ==
    /\ currentPage' = 1 /\ hasMore'
    /\ fetches' = fetches + 1
    /\ Len(last'.req) = 1
    /\ ~last'.req[1].isLoadMore
    /\ last'.req[1].params.param = param
    /\ last'.req[1].params.skipCount = 1
    /\ last'.req[1].params.MaxResultCount = PageSize

\* C16 as stated: when the search timer fires for query q, currentPage is set
\* to 1 and hasMore to true and the fetch is a replacing first-page load
\* whose parameters are the entries of param plus keyword = q, for every q.
C16_SearchSendsKeywordAlways ==
    [][remoteSearchFire
       => /\ SearchFireLoadsFirstPage
          /\ last'.req[1].params.hasKeyword
          /\ last'.req[1].params.keyword = Head(searchTimer)]_vars

\* C16 amended: as above, with keyword = q among the parameters when q is not
\* empty and no keyword entry when q is empty.
C16_SearchSendsKeywordUnlessEmpty ==
    [][remoteSearchFire
       => /\ SearchFireLoadsFirstPage
          /\ last'.req[1].params.hasKeyword <=> Head(searchTimer) # ""
          /\ last'.req[1].params.hasKeyword
                => last'.req[1].params.keyword = Head(searchTimer)]_vars

\* the search timer has fired for the empty query after a second page was
\* loaded: the page is back to 1, hasMore is true, the call carries no keyword
C16_Witness ==
    /\ last.op = "searchFire"
    /\ ~last.req[1].params.hasKeyword
    /\ currentPage = 1 /\ hasMore
    /\ Len(itemList) >= 2 * PageSize

(* ---------------- C17 ---------------- *)

\* {label: item.name, value: item.id} for the items of the response, in order
MappedItems(res) ==
    [k \in DOMAIN res.items |-> [label |-> res.items[k].name, value |-> res.items[k].id]]

\* the pinned entry is required for list: name and value are set and no
\* option of list has the value
PinRequired(list) ==
    TruthyStr(name) /\ Truthy(value) /\ value \notin OptionValues(list)

\* C17 as stated: a successful load-more makes the list the earlier list
\* followed by the mapped new items; a successful replacing load makes it the
\* mapped new items, with the pinned entry in front when it is required.
C17_AppendKeepsReplaceDiscards ==
    [][SettlesFetch /\ last'.res[1].kind = "ok"
       => LET new == MappedItems(last'.res[1]) IN
          IF last'.req[1].isLoadMore
          THEN itemList' = itemList \o new
          ELSE itemList' = IF PinRequired(new) THEN <<PinnedEntry>> \o new ELSE new]_vars

\* C17 amended: as above, and the list of a successful load-more too has the
\* pinned entry in front when it is required (the earlier list followed by
\* the new items has no option with the value).
C17_AppendKeepsReplaceDiscardsPinned ==
    [][SettlesFetch /\ last'.res[1].kind = "ok"
       => LET new == MappedItems(last'.res[1])
              list == IF last'.req[1].isLoadMore THEN itemList \o new ELSE new
          IN  itemList' = IF PinRequired(list) THEN <<PinnedEntry>> \o list ELSE list]_vars

\* a load-more has returned the short page after a full first page: the list
\* is the ten options of the first page and then the three mapped new items
C17_Witness ==
    /\ last.op = "settle" /\ last.res[1].kind = "ok"
    /\ last.req[1].isLoadMore
    /\ Len(last.res[1].items) = ShortLen
    /\ itemList = MappedItems([items |-> PageOf(1, PageSize)]) \o MappedItems(last.res[1])

(* ---------------- C18 ---------------- *)

\* C18: loading is true exactly in the states in which a fetch is in flight.
C18_LoadingIffInFlight ==
    loading <=> InFlight > 0

\* the consequence C18 draws: the scroll timer firing starts no load-more
\* while another fetch is in flight
C18_NoLoadMoreWhileInFlight ==
    [][\A bottom \in BOOLEAN :
        handleScrollFire(bottom) /\ fetches' = fetches + 1 => InFlight = 0]_vars

(* ---------------- C19 ---------------- *)

\* the list is the result of a search with a non-empty query: the latest call
\* or return of getData is the successful return of that search, no open or
\* search was started after it, and nothing is in flight
ListIsSearchResult ==
    /\ last.op = "settle" /\ last.res[1].kind = "ok"
    /\ ~last.req[1].isLoadMore
    /\ last.req[1].params.hasKeyword
    /\ last.req[1].supersededBy = <<>>
    /\ InFlight = 0

\* C19: a load-more that the scroll timer starts on the result of a search
\* with the non-empty query q carries keyword = q.
C19_LoadMoreKeepsKeyword ==
    [][\A bottom \in BOOLEAN :
        handleScrollFire(bottom) /\ fetches' = fetches + 1 /\ ListIsSearchResult
        => /\ last'.req[1].params.hasKeyword
           /\ last'.req[1].params.keyword = last.req[1].params.keyword]_vars

(* ---------------- C20 ---------------- *)

TypeOK ==
    /\ mounted \in BOOLEAN /\ visible \in BOOLEAN /\ loading \in BOOLEAN /\ hasMore \in BOOLEAN
    /\ fetches \in 0..MaxFetches
    /\ currentPage \in 1..(MaxFetches + 1)
    /\ value \in Values /\ name \in Names
====
